---- MODULE Spec2Model ----
(***************************************************************************)
(* A model of the Conversation class (a Direct Line chat session): the     *)
(* handshake of create(), the repeating poll timer of startInterval() and  *)
(* stopInterval(), sendMessage() and the poll callback of update().        *)
(*                                                                         *)
(* Four variants of the class are modelled, selected by `variant`:         *)
(*   "ts"    src/conversation.ts             (one request per call)        *)
(*   "retry" src/unnamed/part_001, 1..206    (tries counters, idle clock)  *)
(*   "dist"  src/dist/conversation.js        (as "retry", but sendMessage  *)
(*           and update only reset the idle clock)                         *)
(*   "old"   src/unnamed/part_001, 247..366  (as "ts", but JSON.parse in   *)
(*           the callbacks, without a catch)                               *)
(*                                                                         *)
(* The HTTP service is the environment: a request stays in flight until    *)
(* its callback runs, callbacks run in any order, and each callback's      *)
(* (error, body) pair is an input of the step.                             *)
(***************************************************************************)
EXTENDS Integers, Sequences, FiniteSets, Bags, TLC

\* ------------------------------------------------------------------ bounds

\* Requests (handshakes, polls and sends together) that may be in flight.
MaxInFlight == 2
\* What the service does in a run: conversations created plus activities appended.
MaxWork == 2
\* whenConnected() calls in a run.
MaxWhen == 1

\* ------------------------------------------------------- program constants

\* `let tries = 3` of create() and `let tries = 1` of sendMessage()/update().
CREATE_TRIES == 3
SEND_TRIES == 1
UPDATE_TRIES == 1

\* JavaScript's undefined / null / '' for the string fields, null for the
\* numeric ones (watermark: number | null, timer: NodeJS.Timer | null).
Undefined == "undefined"
EmptyString == ""
NullWatermark == -1
NullTimer == 0

ConvName(n) == IF n = 1 THEN "c1" ELSE IF n = 2 THEN "c2" ELSE IF n = 3 THEN "c3" ELSE IF n = 4 THEN "c4" ELSE "c5"
TokenOf(c) == IF c = "c1" THEN "t1" ELSE IF c = "c2" THEN "t2" ELSE "t3"

BOT == "bot1"
ActivityKinds ==
  { [type |-> "message", from |-> BOT],
    [type |-> "message", from |-> EmptyString],
    [type |-> "typing", from |-> BOT] }

VARIABLES
  variant,         \* which source file the session runs
  userId,          \* public userId: string = ''
  conversationId,  \* private conversationId: string
  token,           \* private token: string = ''
  expiresIn,       \* private expiresIn: number = 0
  watermark,       \* private watermark: number | null = null
  timer,           \* private timer: NodeJS.Timer | null = null
  lastUpdate,      \* retry variant: has more than 30 s passed since lastUpdate
  hasSentMessage,  \* private hasSentMessage = false
  liveTimers,      \* handles made by setInterval and not yet cleared
  creates,         \* handshake requests in flight (a bag)
  polls,           \* poll requests in flight (a bag)
  sends,           \* send requests in flight (a bag)
  nextConv,        \* service: number of the next conversation it creates
  streamLen,       \* service: activities in each conversation's stream
  emitted,         \* events the last step emitted, in order
  history,         \* what is being recorded: "none", "delivered", "outcome" or "dropped"
  delivered,       \* activities emitted as `message` so far (when recorded)
  outcome,         \* what the last step's callback got (when recorded)
  dropped,         \* activities the closed has-sent gate dropped (when recorded)
  whens,           \* whenConnected() calls made so far; call n passes func n
  listeners,       \* once('connected', ...) listeners registered and not yet run
  timeouts,        \* funcs with a setTimeout(func, delay) pending
  invoked,         \* how often each func has been called
  threw            \* the last step let an exception escape its callback

fields == <<userId, conversationId, token, expiresIn, watermark, hasSentMessage>>
timers == <<timer, lastUpdate, liveTimers>>
service == <<nextConv, streamLen>>
hooks == <<whens, listeners, timeouts, invoked>>
vars == <<variant, fields, timers, creates, polls, sends, service,
          emitted, history, delivered, outcome, dropped, threw, hooks>>

\* -------------------------------------------------------------- events

Ev(name) == [name |-> name, conv |-> Undefined, idx |-> 0]
MessageEv(c, i) == [name |-> "message", conv |-> c, idx |-> i]
Names(evs) == [k \in 1..Len(evs) |-> evs[k].name]
MessagesOf(evs) == { evs[k] : k \in {j \in 1..Len(evs) : evs[j].name = "message"} }

\* ------------------------------------------------------------ parseJSON

\* A response body: undefined (a transport error delivers none), an object
\* (the request library parsed it already) or text, well-formed or not. The
\* text is represented by what it parses to.
NullData == [null |-> TRUE]
UndefinedBody == [kind |-> "undefined", wellFormed |-> FALSE, data |-> NullData]
GarbageBody == [kind |-> "text", wellFormed |-> FALSE, data |-> NullData]
TextBody(d) == [kind |-> "text", wellFormed |-> TRUE, data |-> d]
ObjectBody(d) == [kind |-> "object", wellFormed |-> TRUE, data |-> d]

\* JSON.parse: the value of well-formed text; anything else (undefined too)
\* raises a SyntaxError.
JSONParse(body) ==
  IF body.kind = "text" /\ body.wellFormed
  THEN [threw |-> FALSE, data |-> body.data]
  ELSE [threw |-> TRUE, data |-> NullData]

\* Mutant: parseJSON without its try/catch.
parseJSON_NoCatch(body) ==
  IF body.kind = "object" THEN [threw |-> FALSE, data |-> body.data]
  ELSE JSONParse(body)

\* parseJSON: an object is returned as is; the catch turns the SyntaxError
\* of JSON.parse into null.
parseJSON(body) ==
  IF body.kind = "object" THEN [threw |-> FALSE, data |-> body.data]
  ELSE LET r == JSONParse(body) IN
       IF r.threw THEN [threw |-> FALSE, data |-> NullData] ELSE r

\* The oldest variant parses in the callback itself, without a catch:
\* `typeof body === 'object' ? body : JSON.parse(body)`.
InlineParse(body) ==
  IF body.kind = "object" THEN [threw |-> FALSE, data |-> body.data]
  ELSE JSONParse(body)

\* The variants whose requests go through doRequest() and which keep the
\* idle clock.
Retrying == variant \in {"retry", "dist"}

\* Mutant: a transport error is thrown on instead of being logged.
Outcome_ThrowsOnError(error, body) ==
  LET r == parseJSON(body) IN
  IF error THEN "threw"
  ELSE IF r.threw THEN "threw"
  ELSE IF r.data = NullData THEN "unparsable"
  ELSE IF r.data.error # Undefined THEN "errorField"
  ELSE "ok"

\* The guards that open each callback, each of them returning from it:
\* conversation.ts parses first and then looks at `error`, the retry variant
\* looks at `error` first. "ok" when no guard applies, "threw" when the
\* parse let an exception escape or, in the oldest variant, when
\* `if (!data) throw new Error(...)` did.
Outcome(error, body) ==
  LET r == IF variant = "old" THEN InlineParse(body) ELSE parseJSON(body) IN
  IF Retrying /\ error THEN "transport"
  ELSE IF r.threw THEN "threw"
  ELSE IF r.data = NullData THEN (IF variant = "old" THEN "threw" ELSE "unparsable")
  ELSE IF error THEN "transport"
  ELSE IF r.data.error # Undefined THEN "errorField"
  ELSE "ok"

FailureKinds == {"transport", "unparsable", "errorField"}

ErrorData == [null |-> FALSE, error |-> "err"]
\* The (error, body) pair the callback gets for each kind of failure.
FailureResponse(kind) ==
  IF kind = "transport" THEN [error |-> TRUE, body |-> UndefinedBody]
  ELSE IF kind = "unparsable" THEN [error |-> FALSE, body |-> GarbageBody]
  ELSE [error |-> FALSE, body |-> TextBody(ErrorData)]

\* ------------------------------------------------- stopInterval/startInterval

\* The part of the session the two timer methods touch.
TimerState == [timer |-> timer, liveTimers |-> liveTimers,
               lastUpdate |-> lastUpdate, emitted |-> <<>>]

\* setInterval returns a handle no live timer has.
NewTimer(live) == IF live = {} THEN 1 ELSE 1 + CHOOSE m \in live : \A x \in live : x <= m

\* Mutant: 'stopped' is emitted whether or not a timer was running.
stopInterval_AlwaysEmits(s) ==
  [s EXCEPT !.liveTimers = @ \ {s.timer},
            !.timer = NullTimer,
            !.emitted = Append(@, Ev("stopped"))]

stopInterval(s) ==
  IF s.timer # NullTimer
  THEN [s EXCEPT !.liveTimers = @ \ {s.timer},
                 !.timer = NullTimer,
                 !.emitted = Append(@, Ev("stopped"))]
  ELSE s

\* Mutant: the new timer is set without stopping the one that runs.
startInterval_NoStop(s) ==
  LET h == NewTimer(s.liveTimers)
  IN [s EXCEPT !.timer = h,
               !.liveTimers = @ \cup {h},
               !.lastUpdate = "fresh",
               !.emitted = Append(@, Ev("started"))]

\* Mutant: the running timer is cleared in place, without stopInterval()'s
\* 'stopped' event.
startInterval_SilentStop(s) ==
  LET live == s.liveTimers \ {s.timer}
      h == NewTimer(live)
  IN [s EXCEPT !.timer = h,
               !.liveTimers = live \cup {h},
               !.lastUpdate = "fresh",
               !.emitted = Append(@, Ev("started"))]

\* Mutant: 'started' is emitted before the running timer is stopped.
startInterval_StartedFirst(s) ==
  LET s1 == stopInterval([s EXCEPT !.emitted = Append(@, Ev("started"))])
      h == NewTimer(s1.liveTimers)
  IN [s1 EXCEPT !.timer = h,
                !.liveTimers = @ \cup {h},
                !.lastUpdate = "fresh"]

startInterval(s) ==
  LET s1 == stopInterval(s)
      h == NewTimer(s1.liveTimers)
  IN [s1 EXCEPT !.timer = h,
                !.liveTimers = @ \cup {h},
                !.lastUpdate = "fresh",
                !.emitted = Append(@, Ev("started"))]

SetTimers(s) ==
  /\ timer' = s.timer
  /\ liveTimers' = s.liveTimers
  /\ lastUpdate' = s.lastUpdate

\* What a callback got: the operation, the outcome of its guards and, for a
\* poll response that passed them, the response's watermark and activities.
NoOutcome == [op |-> "none", kind |-> "none", watermark |-> NullWatermark, activities |-> <<>>]
Result(op, kind) == [NoOutcome EXCEPT !.op = op, !.kind = kind]
PollResult(data) ==
  [op |-> "update", kind |-> "ok", watermark |-> data.watermark, activities |-> data.activities]

\* The activities of a poll response that only the closed has-sent gate
\* keeps from being emitted.
GateDrops(out) ==
  IF out.op = "update" /\ out.kind = "ok" /\ ~hasSentMessage
  THEN { <<out.activities[k].conv, out.activities[k].idx>> :
           k \in { j \in DOMAIN out.activities :
                     /\ out.activities[j].type = "message"
                     /\ out.activities[j].from # userId } }
  ELSE {}

\* Every step records what it emitted; `delivered` accumulates the messages,
\* `outcome` holds what the step's callback got. `dropped.seen` accumulates
\* the activities the gate dropped and `dropped.settled` those of them that
\* were dropped before a moment with no poll in flight, so that every poll
\* in flight now was issued after they were dropped.
Log(evs, out) ==
  /\ dropped' = IF history = "dropped"
                THEN [seen |-> dropped.seen \cup GateDrops(out),
                      settled |-> IF polls = EmptyBag THEN dropped.seen
                                  ELSE dropped.settled]
                ELSE dropped
  /\ emitted' = evs
  /\ history' = history
  /\ delivered' = IF history = "delivered"
                  THEN delivered \cup { <<e.conv, e.idx>> : e \in MessagesOf(evs) }
                  ELSE delivered
  /\ outcome' = IF history = "outcome" THEN out ELSE NoOutcome

Emit(evs) == Log(evs, NoOutcome)

\* ------------------------------------------------------------ constructor

\* Mutant: the constructor does not start the polling of a seeded session.
Constructed_NoStart(v, seed, h) ==
  LET s0 == [timer |-> NullTimer, liveTimers |-> {}, lastUpdate |-> "fresh", emitted |-> <<>>]
      s == s0
  IN /\ variant = v
     /\ userId = EmptyString
     /\ conversationId = seed
     /\ token = EmptyString
     /\ expiresIn = 0
     /\ watermark = NullWatermark
     /\ hasSentMessage = FALSE
     /\ timer = s.timer
     /\ liveTimers = s.liveTimers
     /\ lastUpdate = s.lastUpdate
     /\ emitted = s.emitted
     /\ history = h
     /\ delivered = {}
     /\ outcome = NoOutcome
     /\ dropped = [seen |-> {}, settled |-> {}]
     /\ whens = 0
     /\ listeners = {}
     /\ timeouts = {}
     /\ invoked = [f \in 1..MaxWhen |-> 0]
     /\ threw = FALSE
     /\ creates = EmptyBag
     /\ polls = EmptyBag
     /\ sends = EmptyBag
     \* a seeded session continues a conversation the service made earlier
     /\ nextConv = 1
     /\ streamLen = [c \in (IF seed # Undefined THEN {seed} ELSE {})
                               \cup {ConvName(n) : n \in 1..MaxWork} |-> 0]

\* new Conversation(seed): the fields' initialisers, then startInterval()
\* when a conversationId was given.
Constructed(v, seed, h) ==
  LET s0 == [timer |-> NullTimer, liveTimers |-> {}, lastUpdate |-> "fresh", emitted |-> <<>>]
      s == IF seed # Undefined THEN startInterval(s0) ELSE s0
  IN /\ variant = v
     /\ userId = EmptyString
     /\ conversationId = seed
     /\ token = EmptyString
     /\ expiresIn = 0
     /\ watermark = NullWatermark
     /\ hasSentMessage = FALSE
     /\ timer = s.timer
     /\ liveTimers = s.liveTimers
     /\ lastUpdate = s.lastUpdate
     /\ emitted = s.emitted
     /\ history = h
     /\ delivered = {}
     /\ outcome = NoOutcome
     /\ dropped = [seen |-> {}, settled |-> {}]
     /\ whens = 0
     /\ listeners = {}
     /\ timeouts = {}
     /\ invoked = [f \in 1..MaxWhen |-> 0]
     /\ threw = FALSE
     /\ creates = EmptyBag
     /\ polls = EmptyBag
     /\ sends = EmptyBag
     \* a seeded session continues a conversation the service made earlier
     /\ nextConv = 1
     /\ streamLen = [c \in (IF seed # Undefined THEN {seed} ELSE {})
                               \cup {ConvName(n) : n \in 1..MaxWork} |-> 0]

SeedConv == "c0"
Seeds == {Undefined, SeedConv}

Init == \E seed \in Seeds : Constructed("ts", seed, "none")
InitHistory == \E seed \in Seeds : Constructed("ts", seed, "delivered")
InitOutcome == \E seed \in Seeds : Constructed("ts", seed, "outcome")
InitOld == \E seed \in Seeds : Constructed("old", seed, "none")
InitDropped == \E seed \in Seeds : Constructed("ts", seed, "dropped")
InitRetry == \E seed \in Seeds : Constructed("retry", seed, "none")
InitDist == \E seed \in Seeds : Constructed("dist", seed, "none")
InitRetryOutcome == \E seed \in Seeds : Constructed("retry", seed, "outcome")


\* ------------------------------------------------------------ requests

RECURSIVE Sum(_, _)
Sum(f, S) == IF S = {} THEN 0 ELSE LET x == CHOOSE y \in S : TRUE IN f[x] + Sum(f, S \ {x})
Work == (nextConv - 1) + Sum(streamLen, DOMAIN streamLen)

InFlight == BagCardinality(creates) + BagCardinality(polls) + BagCardinality(sends)

\* doRequest of the retry variant is `tries-- && request(...)`: the k-th
\* failure calls it with tries = TRIES - k left, and a request goes out only
\* when that is not 0. conversation.ts calls request directly, once.
Tries(op) ==
  IF op = "create" THEN CREATE_TRIES
  ELSE IF op = "send" THEN SEND_TRIES
  ELSE UPDATE_TRIES

\* Mutant: the counter is tested after the request went out (one attempt more).
doRequest_OneMore(op, attempt) ==
  IF ~Retrying THEN FALSE ELSE Tries(op) - attempt >= 0

doRequest(op, attempt) ==
  IF ~Retrying THEN FALSE ELSE Tries(op) - attempt > 0

\* Mutant: the first failure of a request is always followed by one retry.
AfterCallback_RetriesOnce(bag, req, op, kind) ==
  IF kind \in FailureKinds /\ (doRequest(op, req.attempt) \/ req.attempt = 1)
  THEN (bag (-) SetToBag({req})) (+) SetToBag({[req EXCEPT !.attempt = @ + 1]})
  ELSE bag (-) SetToBag({req})

\* The bag `bag` after the callback of `req` ran with `kind`: the request is
\* gone, and a failure puts the next attempt in flight when doRequest does.
AfterCallback(bag, req, op, kind) ==
  IF kind \in FailureKinds /\ doRequest(op, req.attempt)
  THEN (bag (-) SetToBag({req})) (+) SetToBag({[req EXCEPT !.attempt = @ + 1]})
  ELSE bag (-) SetToBag({req})

\* `${this.watermark || ''}`: null and 0 both leave the parameter empty, which
\* the service reads as the beginning of the stream (offset 0).
UrlWatermark(w) == IF w = NullWatermark \/ w = 0 THEN 0 ELSE w

Exists(c) ==
  /\ c \in DOMAIN streamLen
  /\ c = SeedConv \/ \E n \in 1..MaxWork : n < nextConv /\ c = ConvName(n)

\* ----------------------------------------------------------------- create

Create ==
  /\ InFlight < MaxInFlight
  /\ creates' = creates (+) SetToBag({[attempt |-> 1]})
  /\ Emit(<<>>)
  /\ threw' = FALSE
  /\ UNCHANGED <<variant, hooks, fields, timers, polls, sends, service>>

HandshakeData(c) ==
  [null |-> FALSE, error |-> Undefined, conversationId |-> c,
   token |-> TokenOf(c), expires_in |-> 1800]

\* emit('connected'): every once-listener is removed and run; the listener of
\* whenConnected() calls func, or sets a timeout for it when a delay was given.
HookState == [listeners |-> listeners, timeouts |-> timeouts, invoked |-> invoked]

Call(h, f) == [h EXCEPT !.invoked[f] = @ + 1]

\* Mutant: the listener is registered with on() and stays registered.
EmitConnected_On(h) ==
  [h EXCEPT !.timeouts = @ \cup { l.func : l \in { x \in h.listeners : x.delay } },
            !.invoked = [f \in DOMAIN @ |->
                           IF [func |-> f, delay |-> FALSE] \in h.listeners
                           THEN @[f] + 1 ELSE @[f]]]

EmitConnected(h) ==
  [h EXCEPT !.listeners = {},
            !.timeouts = @ \cup { l.func : l \in { x \in h.listeners : x.delay } },
            !.invoked = [f \in DOMAIN @ |->
                           IF [func |-> f, delay |-> FALSE] \in h.listeners
                           THEN @[f] + 1 ELSE @[f]]]

SetHooks(h) ==
  /\ listeners' = h.listeners
  /\ timeouts' = h.timeouts
  /\ invoked' = h.invoked
  /\ whens' = whens

\* Mutant: startInterval() runs before 'connected' is emitted.
CreateSuccess_StartsFirst(data) ==
  LET s == startInterval(TimerState) IN
  /\ SetHooks(EmitConnected(HookState))
  /\ conversationId' = data.conversationId
  /\ token' = data.token
  /\ expiresIn' = data.expires_in
  /\ watermark' = NullWatermark
  /\ SetTimers(s)
  /\ Log(Append(s.emitted, Ev("connected")), Result("create", "ok"))
  /\ UNCHANGED <<userId, hasSentMessage>>

\* Mutant: a new conversation closes the has-sent gate again.
CreateSuccess_ResetsGate(data) ==
  LET s == startInterval([TimerState EXCEPT !.emitted = <<Ev("connected")>>]) IN
  /\ SetHooks(EmitConnected(HookState))
  /\ conversationId' = data.conversationId
  /\ token' = data.token
  /\ expiresIn' = data.expires_in
  /\ watermark' = NullWatermark
  /\ hasSentMessage' = FALSE
  /\ SetTimers(s)
  /\ Log(s.emitted, Result("create", "ok"))
  /\ UNCHANGED userId

\* The success path of create()'s callback.
CreateSuccess(data) ==
  LET s == startInterval([TimerState EXCEPT !.emitted = <<Ev("connected")>>]) IN
  /\ SetHooks(EmitConnected(HookState))
  /\ conversationId' = data.conversationId
  /\ token' = data.token
  /\ expiresIn' = data.expires_in
  /\ watermark' = NullWatermark
  /\ SetTimers(s)
  /\ Log(s.emitted, Result("create", "ok"))
  /\ UNCHANGED <<userId, hasSentMessage>>

\* Mutant: the success path does not end the chain of attempts.
CreateCallback_GoesOnAfterSuccess(req, error, body) ==
  LET kind == Outcome(error, body) IN
  /\ creates' = IF Retrying /\ req.attempt < CREATE_TRIES
                THEN (creates (-) SetToBag({req})) (+) SetToBag({[req EXCEPT !.attempt = @ + 1]})
                ELSE creates (-) SetToBag({req})
  /\ threw' = (kind = "threw")
  /\ IF kind = "ok"
     THEN CreateSuccess(parseJSON(body).data)
     ELSE Log(<<>>, Result("create", kind)) /\ UNCHANGED <<fields, timers, hooks>>
  /\ UNCHANGED <<variant, polls, sends, streamLen>>

\* create()'s callback on a response (error, body) to request `req`.
CreateCallback(req, error, body) ==
  LET kind == Outcome(error, body) IN
  /\ creates' = AfterCallback(creates, req, "create", kind)
  /\ threw' = (kind = "threw")
  /\ IF kind = "ok"
     THEN CreateSuccess(parseJSON(body).data)
     ELSE Log(<<>>, Result("create", kind)) /\ UNCHANGED <<fields, timers, hooks>>
  /\ UNCHANGED <<variant, polls, sends, streamLen>>

CreateFails ==
  \E req \in BagToSet(creates), kind \in FailureKinds :
    /\ CreateCallback(req, FailureResponse(kind).error, FailureResponse(kind).body)
    /\ UNCHANGED nextConv

\* The service made conversation ConvName(nextConv) for this request.
CreateSucceeds ==
  \E req \in BagToSet(creates) :
    /\ Work < MaxWork
    /\ CreateCallback(req, FALSE, TextBody(HandshakeData(ConvName(nextConv))))
    /\ nextConv' = nextConv + 1

\* ------------------------------------------------- the caller's timer calls

StartInterval ==
  LET s == startInterval(TimerState) IN
  /\ SetTimers(s)
  /\ Emit(s.emitted)
  /\ threw' = FALSE
  /\ UNCHANGED <<variant, hooks, fields, creates, polls, sends, service>>

\* Mutant: stopping the polling forgets the watermark.
StopInterval_ForgetsWatermark ==
  LET s == stopInterval(TimerState) IN
  /\ SetTimers(s)
  /\ Emit(s.emitted)
  /\ threw' = FALSE
  /\ watermark' = NullWatermark
  /\ UNCHANGED <<variant, hooks, userId, conversationId, token, expiresIn,
                 hasSentMessage, creates, polls, sends, service>>

StopInterval ==
  LET s == stopInterval(TimerState) IN
  /\ SetTimers(s)
  /\ Emit(s.emitted)
  /\ threw' = FALSE
  /\ UNCHANGED <<variant, hooks, fields, creates, polls, sends, service>>

\* ---------------------------------------------------------- whenConnected

\* whenConnected(func, delayForFirstMessage): func is called at once when
\* conversationId is set, else a once-listener of 'connected' is registered.
\* `delay` is whether delayForFirstMessage is given and not 0.
whenConnected(h, f, delay) ==
  IF conversationId # Undefined
  THEN Call(h, f)
  ELSE [h EXCEPT !.listeners = @ \cup {[func |-> f, delay |-> delay]}]

WhenConnected ==
  \E delay \in BOOLEAN :
    /\ whens < MaxWhen
    /\ whens' = whens + 1
    /\ LET h == whenConnected(HookState, whens + 1, delay) IN
         /\ listeners' = h.listeners
         /\ timeouts' = h.timeouts
         /\ invoked' = h.invoked
    /\ Emit(<<>>)
    /\ threw' = FALSE
    /\ UNCHANGED <<variant, fields, timers, creates, polls, sends, service>>

\* The delay of a setTimeout(func, delayForFirstMessage) is over: func runs.
TimeoutFires ==
  \E f \in timeouts :
    /\ timeouts' = timeouts \ {f}
    /\ invoked' = [invoked EXCEPT ![f] = @ + 1]
    /\ Emit(<<>>)
    /\ threw' = FALSE
    /\ UNCHANGED <<variant, fields, timers, creates, polls, sends, service,
                   whens, listeners>>

\* ------------------------------------------------------------ sendMessage

\* The request sendMessage() builds: url, token header and `from` of the json.
SendRequest == [conv |-> conversationId, token |-> token, from |-> userId, attempt |-> 1]

\* Mutant: sendMessage() restarts the polling, as part_001 does.
SendMessage_Restarts ==
  LET s == startInterval(TimerState) IN
  /\ InFlight < MaxInFlight
  /\ hasSentMessage' = TRUE
  /\ SetTimers(s)
  /\ sends' = sends (+) SetToBag({SendRequest})
  /\ Emit(s.emitted)
  /\ threw' = FALSE
  /\ UNCHANGED <<variant, hooks, userId, conversationId, token, expiresIn, watermark,
                 creates, polls, service>>

SendMessage ==
  LET s == IF variant = "retry" THEN startInterval(TimerState)
           ELSE IF variant = "dist" THEN [TimerState EXCEPT !.lastUpdate = "fresh"]
           ELSE TimerState IN
  /\ InFlight < MaxInFlight
  /\ hasSentMessage' = TRUE
  /\ SetTimers(s)
  /\ sends' = sends (+) SetToBag({SendRequest})
  /\ Emit(s.emitted)
  /\ threw' = FALSE
  /\ UNCHANGED <<variant, hooks, userId, conversationId, token, expiresIn, watermark,
                 creates, polls, service>>

SendCallback(req, error, body) ==
  LET kind == Outcome(error, body) IN
  /\ sends' = AfterCallback(sends, req, "send", kind)
  /\ Log(<<>>, Result("send", kind))
  /\ threw' = (kind = "threw")
  /\ UNCHANGED <<variant, hooks, fields, timers, creates, polls, service>>

EmptyData == [null |-> FALSE, error |-> Undefined]

SendFails ==
  \E req \in BagToSet(sends), kind \in FailureKinds :
    SendCallback(req, FailureResponse(kind).error, FailureResponse(kind).body)

SendSucceeds ==
  \E req \in BagToSet(sends) : SendCallback(req, FALSE, ObjectBody(EmptyData))

SendResponse == SendFails \/ SendSucceeds

\* ----------------------------------------------------------------- update

\* The request update() builds from the session at the tick; `lo` is the
\* length of the conversation's stream at that moment.
PollRequest ==
  [conv |-> conversationId, wm |-> UrlWatermark(watermark),
   lo |-> IF Exists(conversationId) THEN streamLen[conversationId] ELSE 0,
   attempt |-> 1]

\* A tick of a live timer runs update(): the retry variant first stops the
\* timer when more than 30 s passed since lastUpdate; then the poll goes out.
\* Mutant: update() returns after stopping an idle session.
PollTick_ReturnsWhenIdle ==
  LET idle == Retrying /\ lastUpdate = "expired"
      s == IF idle THEN stopInterval(TimerState) ELSE TimerState IN
  /\ liveTimers # {}
  /\ InFlight < MaxInFlight
  /\ SetTimers(s)
  /\ polls' = IF idle THEN polls ELSE polls (+) SetToBag({PollRequest})
  /\ Emit(s.emitted)
  /\ threw' = FALSE
  /\ UNCHANGED <<variant, hooks, fields, creates, sends, service>>

PollTick ==
  LET s == IF Retrying /\ lastUpdate = "expired"
           THEN stopInterval(TimerState) ELSE TimerState IN
  /\ liveTimers # {}
  /\ InFlight < MaxInFlight
  /\ SetTimers(s)
  /\ polls' = polls (+) SetToBag({PollRequest})
  /\ Emit(s.emitted)
  /\ threw' = FALSE
  /\ UNCHANGED <<variant, hooks, fields, creates, sends, service>>

\* Mutant: the sender of a message is not compared with userId.
RECURSIVE MessagesFor_NoFromCheck(_)
MessagesFor_NoFromCheck(acts) ==
  IF acts = <<>> THEN <<>>
  ELSE LET act == Head(acts)
           rest == MessagesFor_NoFromCheck(Tail(acts))
       IN IF act.type = "message" /\ hasSentMessage
          THEN <<MessageEv(act.conv, act.idx)>> \o rest
          ELSE rest

\* Mutant: the has-sent gate is not looked at.
RECURSIVE MessagesFor_NoGate(_)
MessagesFor_NoGate(acts) ==
  IF acts = <<>> THEN <<>>
  ELSE LET act == Head(acts)
           rest == MessagesFor_NoGate(Tail(acts))
       IN IF act.type = "message" /\ act.from # userId
          THEN <<MessageEv(act.conv, act.idx)>> \o rest
          ELSE rest

\* Mutant: an activity of an unhandled type ends the forEach.
RECURSIVE MessagesFor_StopsAtUnhandled(_)
MessagesFor_StopsAtUnhandled(acts) ==
  IF acts = <<>> THEN <<>>
  ELSE LET act == Head(acts)
       IN IF act.type # "message" THEN <<>>
          ELSE IF act.from # userId /\ hasSentMessage
          THEN <<MessageEv(act.conv, act.idx)>> \o MessagesFor_StopsAtUnhandled(Tail(acts))
          ELSE MessagesFor_StopsAtUnhandled(Tail(acts))

\* Mutant: the forEach ends at the first message it emits.
RECURSIVE MessagesFor_OnlyFirst(_)
MessagesFor_OnlyFirst(acts) ==
  IF acts = <<>> THEN <<>>
  ELSE LET act == Head(acts)
       IN IF act.type = "message" /\ act.from # userId /\ hasSentMessage
          THEN <<MessageEv(act.conv, act.idx)>>
          ELSE MessagesFor_OnlyFirst(Tail(acts))

\* Mutant: the messages are emitted last activity first.
RECURSIVE MessagesFor_Reversed(_)
MessagesFor_Reversed(acts) ==
  IF acts = <<>> THEN <<>>
  ELSE LET act == Head(acts)
           rest == MessagesFor_Reversed(Tail(acts))
       IN IF act.type = "message" /\ act.from # userId /\ hasSentMessage
          THEN rest \o <<MessageEv(act.conv, act.idx)>>
          ELSE rest

\* The messages the forEach of update() emits for `acts`.
RECURSIVE MessagesFor(_)
MessagesFor(acts) ==
  IF acts = <<>> THEN <<>>
  ELSE LET act == Head(acts)
           rest == MessagesFor(Tail(acts))
       IN IF act.type = "message" /\ act.from # userId /\ hasSentMessage
          THEN <<MessageEv(act.conv, act.idx)>> \o rest
          ELSE rest

\* Mutant: the watermark is taken only from a response that has activities.
UpdateSuccess_SkipsEmpty(data) ==
  LET restart == variant = "retry" /\ Len(data.activities) > 0
      s == IF restart THEN startInterval(TimerState) ELSE TimerState
  IN /\ watermark' = IF Len(data.activities) > 0 THEN data.watermark ELSE watermark
     /\ SetTimers(s)
     /\ Log(s.emitted \o MessagesFor(data.activities), PollResult(data))
     /\ UNCHANGED <<userId, conversationId, token, expiresIn, hasSentMessage>>

\* The success path of update()'s callback.
UpdateSuccess(data) ==
  LET restart == variant = "retry" /\ Len(data.activities) > 0
      reset == variant = "dist" /\ Len(data.activities) > 0
      s == IF restart THEN startInterval(TimerState)
           ELSE IF reset THEN [TimerState EXCEPT !.lastUpdate = "fresh"]
           ELSE TimerState
  IN /\ watermark' = data.watermark
     /\ SetTimers(s)
     /\ Log(s.emitted \o MessagesFor(data.activities), PollResult(data))
     /\ UNCHANGED <<userId, conversationId, token, expiresIn, hasSentMessage>>

\* Mutant: a failed poll stops the polling.
UpdateCallback_FailureStops(req, error, body) ==
  LET kind == Outcome(error, body)
      s == stopInterval(TimerState) IN
  /\ polls' = AfterCallback(polls, req, "update", kind)
  /\ threw' = (kind = "threw")
  /\ IF kind = "ok"
     THEN UpdateSuccess(parseJSON(body).data)
     ELSE Log(s.emitted, Result("update", kind)) /\ SetTimers(s) /\ UNCHANGED fields
  /\ UNCHANGED <<variant, hooks, creates, sends, service>>

\* Mutant: the response of a poll is dropped when the polling was stopped.
UpdateCallback_DroppedWhenStopped(req, error, body) ==
  LET kind == Outcome(error, body) IN
  /\ polls' = AfterCallback(polls, req, "update", kind)
  /\ threw' = (kind = "threw")
  /\ IF kind = "ok" /\ timer # NullTimer
     THEN UpdateSuccess(parseJSON(body).data)
     ELSE IF kind = "ok"
     THEN Log(<<>>, PollResult(parseJSON(body).data)) /\ UNCHANGED <<fields, timers>>
     ELSE Log(<<>>, Result("update", kind)) /\ UNCHANGED <<fields, timers>>
  /\ UNCHANGED <<variant, hooks, creates, sends, service>>

UpdateCallback(req, error, body) ==
  LET kind == Outcome(error, body) IN
  /\ polls' = AfterCallback(polls, req, "update", kind)
  /\ threw' = (kind = "threw")
  /\ IF kind = "ok"
     THEN UpdateSuccess(parseJSON(body).data)
     ELSE Log(<<>>, Result("update", kind)) /\ UNCHANGED <<fields, timers>>
  /\ UNCHANGED <<variant, hooks, creates, sends, service>>

PollFails ==
  \E req \in BagToSet(polls), kind \in FailureKinds :
    UpdateCallback(req, FailureResponse(kind).error, FailureResponse(kind).body)

\* { watermark, activities }: the stream's length when the service answered,
\* and the activities after the request's watermark up to there.
PollData(req, len, kinds) ==
  [null |-> FALSE, error |-> Undefined, watermark |-> len,
   activities |-> [k \in 1..Len(kinds) |->
                     [conv |-> req.conv, idx |-> req.wm + k,
                      type |-> kinds[k].type, from |-> kinds[k].from]]]

\* The service answers a poll of a conversation it knows at some moment
\* between the request (stream length req.lo) and the callback.
PollSucceeds ==
  \E req \in BagToSet(polls) :
    /\ Exists(req.conv)
    /\ \E len \in req.lo..streamLen[req.conv] :
         \E kinds \in [1..(IF len > req.wm THEN len - req.wm ELSE 0) -> ActivityKinds] :
           UpdateCallback(req, FALSE, TextBody(PollData(req, len, kinds)))

\* The service answers a poll from a stream in which every activity is a
\* message of the bot.
PollSucceedsFromBot ==
  \E req \in BagToSet(polls) :
    /\ Exists(req.conv)
    /\ \E len \in req.lo..streamLen[req.conv] :
         UpdateCallback(req, FALSE,
           TextBody(PollData(req, len,
             [k \in 1..(IF len > req.wm THEN len - req.wm ELSE 0) |->
                [type |-> "message", from |-> BOT]])))

\* ------------------------------------------ responses of an unexpected shape

\* A handshake body that is JSON with no error field and none of the fields
\* create() destructures: each of them comes out undefined.
BareHandshake ==
  [null |-> FALSE, error |-> Undefined, conversationId |-> Undefined,
   token |-> Undefined, expires_in |-> Undefined]

CreateAnswersBare ==
  \E req \in BagToSet(creates) :
    /\ CreateCallback(req, FALSE, TextBody(BareHandshake))
    /\ UNCHANGED nextConv

\* A message activity that has no `from`.
FromlessMessage == [type |-> "message", from |-> Undefined]

\* Poll data with a watermark and either no activities list at all
\* (list = FALSE) or a list in which some message has no `from`.
OddPollData(req, len, list, kinds) ==
  [null |-> FALSE, error |-> Undefined, watermark |-> len, list |-> list,
   activities |-> [k \in 1..Len(kinds) |->
                     [conv |-> req.conv, idx |-> req.wm + k,
                      type |-> kinds[k].type, from |-> kinds[k].from]]]

\* The forEach of update(): `act.from.id` of a message without `from` raises
\* a TypeError, which ends the loop after the activities before it were
\* handled.
RECURSIVE ForEach(_)
ForEach(acts) ==
  IF acts = <<>> THEN [emitted |-> <<>>, threw |-> FALSE]
  ELSE IF Head(acts).type = "message" /\ Head(acts).from = Undefined
  THEN [emitted |-> <<>>, threw |-> TRUE]
  ELSE LET rest == ForEach(Tail(acts))
       IN [emitted |-> MessagesFor(<<Head(acts)>>) \o rest.emitted, threw |-> rest.threw]

\* update()'s callback on such data: the guards pass, the watermark is
\* assigned, and then `data.activities.forEach` (conversation.ts) or
\* `data.activities.length` (retry variant) of a missing list raises a
\* TypeError; with a list, the retry variant restarts the timer and the
\* forEach runs up to the message without `from`.
UpdateOddShape(req, data) ==
  LET r == IF data.list THEN ForEach(data.activities)
           ELSE [emitted |-> <<>>, threw |-> TRUE]
      some == data.list /\ Len(data.activities) > 0
      s == IF variant = "retry" /\ some THEN startInterval(TimerState)
           ELSE IF variant = "dist" /\ some THEN [TimerState EXCEPT !.lastUpdate = "fresh"]
           ELSE TimerState
  IN /\ polls' = polls (-) SetToBag({req})
     /\ threw' = r.threw
     /\ watermark' = data.watermark
     /\ SetTimers(s)
     /\ Log(s.emitted \o r.emitted, Result("update", IF r.threw THEN "threw" ELSE "ok"))
     /\ UNCHANGED <<userId, conversationId, token, expiresIn, hasSentMessage>>
     /\ UNCHANGED <<variant, hooks, creates, sends, service>>

PollAnswersOddShape ==
  \E req \in BagToSet(polls) :
    /\ Exists(req.conv)
    /\ \E len \in req.lo..streamLen[req.conv] :
         \/ UpdateOddShape(req, OddPollData(req, len, FALSE, <<>>))
         \/ \E kinds \in [1..(IF len > req.wm THEN len - req.wm ELSE 0)
                              -> ActivityKinds \cup {FromlessMessage}] :
              /\ \E k \in DOMAIN kinds : kinds[k] = FromlessMessage
              /\ UpdateOddShape(req, OddPollData(req, len, TRUE, kinds))

\* ---------------------------------------------------------------- service

\* An activity is appended to a conversation's stream.
ServiceActivity ==
  \E c \in DOMAIN streamLen :
    /\ Exists(c)
    /\ Work < MaxWork
    /\ streamLen' = [streamLen EXCEPT ![c] = @ + 1]
    /\ Emit(<<>>)
    /\ threw' = FALSE
    /\ UNCHANGED <<variant, hooks, fields, timers, creates, polls, sends, nextConv>>

\* More than 30 s pass since lastUpdate (the retry variant reads the clock).
TimePasses ==
  /\ Retrying
  /\ lastUpdate = "fresh"
  /\ lastUpdate' = "expired"
  /\ Emit(<<>>)
  /\ threw' = FALSE
  /\ UNCHANGED <<variant, hooks, fields, timer, liveTimers, creates, polls, sends, service>>

Next ==
  \/ Create
  \/ CreateFails
  \/ CreateSucceeds
  \/ StartInterval
  \/ StopInterval
  \/ SendMessage
  \/ SendResponse
  \/ PollTick
  \/ PollFails
  \/ PollSucceeds
  \/ ServiceActivity

NextRetry ==
  \/ Next
  \/ TimePasses

\* src/conversation.ts
Spec == Init /\ [][Next]_vars
\* src/conversation.ts, recording the activities emitted so far
SpecHistory == InitHistory /\ [][Next]_vars
\* src/unnamed/part_001, lines 1..206
SpecRetry == InitRetry /\ [][NextRetry]_vars
\* both files
InitAll == Init \/ InitRetry
SpecAll == InitAll /\ [][NextRetry]_vars
\* the two files that keep an idle clock: part_001 and dist/conversation.js
InitIdle == InitRetry \/ InitDist
SpecIdle == InitIdle /\ [][NextRetry]_vars
\* src/conversation.ts with whenConnected(); a timeout that is set fires
NextWhen ==
  \/ Next
  \/ WhenConnected
  \/ TimeoutFires
SpecWhen == Init /\ [][NextWhen]_vars /\ WF_vars(TimeoutFires)
\* src/conversation.ts, recording what each callback got
SpecOutcome == InitOutcome /\ [][Next]_vars
\* src/conversation.ts, recording what the has-sent gate dropped
SpecDropped == InitDropped /\ [][Next]_vars
\* the oldest variant: src/unnamed/part_001 from line 247, src/unnamed/part_002
SpecOld == InitOld /\ [][Next]_vars
\* src/conversation.ts, seeded, with a stream of bot messages and recording
\* the activities emitted, while the caller leaves the polling active and
\* the session in its conversation. The timer of setInterval ticks again and
\* again (PollTick is disabled only by the bound on requests in flight),
\* every send is answered, and polls are answered successfully again and
\* again (which answers every poll in the end).
InitLive == Constructed("ts", SeedConv, "delivered")
NextLive ==
  \/ SendMessage
  \/ SendResponse
  \/ PollTick
  \/ PollFails
  \/ PollSucceedsFromBot
  \/ ServiceActivity
SpecLive ==
  /\ InitLive
  /\ [][NextLive]_vars
  /\ SF_vars(PollTick)
  /\ WF_vars(SendResponse)
  /\ SF_vars(PollSucceedsFromBot)
\* both files, with a service that also sends bodies of an unexpected shape
NextShape ==
  \/ NextRetry
  \/ CreateAnswersBare
  \/ PollAnswersOddShape
SpecShape == InitAll /\ [][NextShape]_vars
\* both files, recording what each callback got
InitAllOutcome == InitOutcome \/ InitRetryOutcome
SpecAllOutcome == InitAllOutcome /\ [][NextRetry]_vars


\* ================================================================ claims

Polling == timer # NullTimer

\* C1: at most one repeating poll timer is live: every timer startInterval
\* made that is not the one held in `timer` has been cleared (both files).
C1_OneLiveTimer == liveTimers \subseteq {timer} \ {NullTimer}

\* C1: polling was restarted and exactly the timer held is live.
C1_Witness ==
  /\ Polling
  /\ liveTimers = {timer}
  /\ Names(emitted) = <<"stopped", "started">>

\* C2: startInterval() while polling is inactive emits 'started' alone;
\* while polling is active it emits 'stopped' and then 'started'; polling is
\* active afterwards.
C2_StartIntervalEvents ==
  [][StartInterval =>
       /\ Names(emitted') = IF Polling THEN <<"stopped", "started">> ELSE <<"started">>
       /\ timer' # NullTimer
       /\ timer' \in liveTimers']_vars

\* C2: the caller restarted the polling of a connected session.
C2_Witness ==
  /\ conversationId # Undefined
  /\ token # EmptyString
  /\ Names(emitted) = <<"stopped", "started">>
  /\ Polling

\* C3: stopInterval() while polling clears the timer and emits one 'stopped';
\* while not polling it emits nothing and changes nothing, so a second
\* stopInterval() adds nothing to the first.
C3_StopIntervalIdempotent ==
  [][StopInterval =>
       /\ timer' = NullTimer
       /\ UNCHANGED <<fields, creates, polls, sends>>
       /\ IF Polling
          THEN /\ liveTimers' = liveTimers \ {timer}
               /\ Names(emitted') = <<"stopped">>
          ELSE /\ emitted' = <<>>
               /\ UNCHANGED timers]_vars

\* C3: polling was stopped; a further stopInterval() starts from here.
C3_Witness ==
  /\ Names(emitted) = <<"stopped">>
  /\ ~Polling
  /\ liveTimers = {}

\* C4: no send request goes out unless the session holds a conversationId
\* and the token obtained for it.
C4_SendOnlyWhenConnected ==
  \A req \in BagToSet(sends) :
    /\ req.conv # Undefined
    /\ req.token # EmptyString
    /\ req.token = TokenOf(req.conv)

\* C5: `message` is emitted only when the session holds both a
\* conversationId and a token.
C5_MessageOnlyWhenConnected ==
  MessagesOf(emitted) # {} => conversationId # Undefined /\ token # EmptyString

\* C6: while the session stays in one conversation, a watermark the service
\* provided is only ever replaced by one of a later point of the stream.
C6_WatermarkNeverRegresses ==
  [][(watermark # NullWatermark /\ conversationId' = conversationId)
       => watermark' >= watermark]_vars

\* C7: each activity of a stream is emitted as `message` at most once.
C7_EmittedAtMostOnce ==
  [][\A e \in MessagesOf(emitted') : <<e.conv, e.idx>> \notin delivered]_vars

\* C8: a successful handshake sets conversationId, token and expiresIn from
\* the response, resets the watermark to null and emits 'connected', then
\* 'stopped' only if polling was active, then 'started'; polling is active
\* afterwards.
C8_CreateSuccessStep ==
  [][CreateSucceeds =>
       /\ conversationId' = ConvName(nextConv)
       /\ token' = TokenOf(ConvName(nextConv))
       /\ expiresIn' = HandshakeData(ConvName(nextConv)).expires_in
       /\ watermark' = NullWatermark
       /\ Names(emitted') = IF Polling
                            THEN <<"connected", "stopped", "started">>
                            ELSE <<"connected", "started">>
       /\ timer' # NullTimer
       /\ liveTimers' = {timer'}]_vars

\* C8: a handshake succeeded on a session that was polling.
C8_Witness ==
  /\ Names(emitted) = <<"connected", "stopped", "started">>
  /\ conversationId # Undefined
  /\ token = TokenOf(conversationId)
  /\ expiresIn = HandshakeData(conversationId).expires_in
  /\ watermark = NullWatermark
  /\ Polling

\* C9: a failed handshake attempt emits nothing ('connected' least of all),
\* lets no exception escape, starts no polling and leaves conversationId,
\* token, expiresIn and watermark as they were (both files).
C9_CreateFailureSilent ==
  [][CreateFails =>
       /\ emitted' = <<>>
       /\ ~threw'
       /\ UNCHANGED <<fields, timers>>]_vars

\* C9: the last attempt of a create() is in flight, the earlier ones having
\* failed, and the session is as constructed.
C9_Witness ==
  /\ \E req \in BagToSet(creates) : req.attempt = CREATE_TRIES
  /\ conversationId = Undefined
  /\ token = EmptyString
  /\ ~Polling

\* C10: in conversation.ts a failed handshake attempt is followed at once by
\* a further attempt, up to CREATE_TRIES attempts per create().
C10_CreateRetries ==
  [][CreateFails =>
       \E req \in BagToSet(creates) :
         creates' = IF req.attempt < CREATE_TRIES
                    THEN (creates (-) SetToBag({req}))
                           (+) SetToBag({[req EXCEPT !.attempt = @ + 1]})
                    ELSE creates (-) SetToBag({req})]_vars

\* The last step processed a poll response that passed the callback's guards;
\* its activities, and how often each was emitted as `message` by the step.
Processed == outcome.op = "update" /\ outcome.kind = "ok"
Acts == outcome.activities
TimesEmitted(act) ==
  Cardinality({ k \in 1..Len(emitted) :
                  /\ emitted[k].name = "message"
                  /\ emitted[k].conv = act.conv
                  /\ emitted[k].idx = act.idx })
Qualifies(act) == act.type = "message" /\ act.from # userId

\* C11: an activity of a processed poll response whose from.id is the
\* session's userId is never emitted as `message`, has-sent gate open or not.
C11_OwnActivityNotEmitted ==
  Processed => \A k \in DOMAIN Acts : Acts[k].from = userId => TimesEmitted(Acts[k]) = 0

\* C11: with the gate open, a response held a message of the session's own
\* user next to one of the bot, and only the bot's was emitted.
C11_Witness ==
  /\ Processed
  /\ hasSentMessage
  /\ \E k \in DOMAIN Acts : Acts[k].type = "message" /\ Acts[k].from = userId
  /\ \E k \in DOMAIN Acts : TimesEmitted(Acts[k]) = 1

\* C12: the has-sent gate is closed until the first sendMessage() and open
\* ever after; with it closed a processed poll response emits no `message`,
\* with it open each of its message activities from another sender is
\* emitted exactly once.
C12_Gate ==
  Processed =>
    IF hasSentMessage
    THEN \A k \in DOMAIN Acts : Qualifies(Acts[k]) => TimesEmitted(Acts[k]) = 1
    ELSE MessagesOf(emitted) = {}

C12_HasSentGate ==
  /\ ~hasSentMessage
  /\ [][hasSentMessage' = (hasSentMessage \/ SendMessage)]_vars
  /\ []C12_Gate

\* C12: a response with a message of the bot was processed before any
\* sendMessage(), and nothing was emitted.
C12_Witness ==
  /\ Processed
  /\ ~hasSentMessage
  /\ \E k \in DOMAIN Acts : Qualifies(Acts[k])
  /\ emitted = <<>>

\* C13: after a processed poll response the watermark is the one the
\* response carried, whatever its activities (both files).
C13_WatermarkFromResponse == Processed => watermark = outcome.watermark

\* C13: a response whose activities were all filtered out or unhandled was
\* processed with the gate open, and the watermark is the response's.
C13_Witness ==
  /\ Processed
  /\ hasSentMessage
  /\ \E k \in DOMAIN Acts : Acts[k].type # "message"
  /\ \E k \in DOMAIN Acts : Acts[k].type = "message" /\ Acts[k].from = userId
  /\ \A k \in DOMAIN Acts : ~Qualifies(Acts[k])
  /\ MessagesOf(emitted) = {}
  /\ watermark = outcome.watermark
  /\ watermark = Len(Acts)

\* The step put one more poll request in flight: the one update() builds from
\* the session as it is.
IssuesPoll ==
  polls' = polls (+) SetToBag({[conv |-> conversationId,
                                wm |-> UrlWatermark(watermark),
                                lo |-> PollRequest.lo,
                                attempt |-> 1]})

\* C15: a failed poll emits nothing, leaves the session's fields and the
\* timer as they were and issues no request; the tick that follows issues a
\* poll request with the watermark the session holds.
C15_PollFailureSilent ==
  /\ [][PollFails =>
          /\ emitted' = <<>>
          /\ ~threw'
          /\ UNCHANGED <<fields, timers>>
          /\ BagCardinality(polls') = BagCardinality(polls) - 1]_vars
  /\ [][PollTick => IssuesPoll]_vars

\* C15: a poll failed while the session was polling with a watermark of the
\* service, and the timer is still live.
C15_Witness ==
  /\ outcome.op = "update"
  /\ outcome.kind \in FailureKinds
  /\ Polling
  /\ liveTimers = {timer}
  /\ watermark > 0
  /\ emitted = <<>>

\* C16: in conversation.ts a sendMessage() call puts exactly one send request
\* in flight, built from the conversationId, token and userId held at the
\* call, and opens the has-sent gate; neither the call nor the response
\* emits anything or changes another field or the polling.
C16_SendFrame ==
  /\ [][SendMessage =>
          /\ sends' = sends (+) SetToBag({[conv |-> conversationId, token |-> token,
                                           from |-> userId, attempt |-> 1]})
          /\ hasSentMessage'
          /\ emitted' = <<>>
          /\ UNCHANGED <<userId, conversationId, token, expiresIn, watermark,
                         timers, creates, polls>>]_vars
  /\ [][SendResponse =>
          /\ BagCardinality(sends') = BagCardinality(sends) - 1
          /\ emitted' = <<>>
          /\ UNCHANGED <<fields, timers, creates, polls>>]_vars

\* C16: the response of a send arrived at a connected session that was not
\* polling, and it is still not polling.
C16_Witness ==
  /\ outcome.op = "send"
  /\ outcome.kind = "ok"
  /\ hasSentMessage
  /\ conversationId # Undefined
  /\ token = TokenOf(conversationId)
  /\ ~Polling
  /\ emitted = <<>>

C18_Stopped ==
  Processed /\ ~Polling =>
    /\ watermark = outcome.watermark
    /\ \A k \in DOMAIN Acts :
         TimesEmitted(Acts[k]) = IF Qualifies(Acts[k]) /\ hasSentMessage THEN 1 ELSE 0

C18_NoAbortOnStop ==
  /\ [][BagCardinality(polls') > BagCardinality(polls) => Polling]_vars
  /\ []C18_Stopped

\* C18: the response of a poll arrived at a stopped session and a `message`
\* was emitted for it.
C18_Witness ==
  /\ Processed
  /\ ~Polling
  /\ liveTimers = {}
  /\ MessagesOf(emitted) # {}
  /\ watermark = outcome.watermark

\* C19: in conversation.ts a transport error, an unparsable body and a
\* response with an error field end the callback of create(), sendMessage()
\* and update() the same way: the request is gone, nothing is emitted, no
\* exception escapes and the session is as it was.
C19_FailuresAlike ==
  [][(CreateFails \/ SendFails \/ PollFails) =>
       /\ emitted' = <<>>
       /\ ~threw'
       /\ UNCHANGED <<fields, timers, service, hooks>>
       /\ \/ \E req \in BagToSet(creates) :
               /\ creates' = creates (-) SetToBag({req})
               /\ UNCHANGED <<polls, sends>>
          \/ \E req \in BagToSet(sends) :
               /\ sends' = sends (-) SetToBag({req})
               /\ UNCHANGED <<creates, polls>>
          \/ \E req \in BagToSet(polls) :
               /\ polls' = polls (-) SetToBag({req})
               /\ UNCHANGED <<creates, sends>>]_vars

\* C19: a handshake response with an error field was processed, and the
\* session is as constructed.
C19_Witness ==
  /\ outcome.op = "create"
  /\ outcome.kind = "errorField"
  /\ conversationId = Undefined
  /\ token = EmptyString
  /\ ~Polling
  /\ emitted = <<>>

\* func f waits in a once-listener / a step emitted 'connected'.
Listening(f) == \E l \in listeners : l.func = f
ListeningAfter(f) == \E l \in listeners' : l.func = f
EmitsConnected == \E k \in 1..Len(emitted') : emitted'[k].name = "connected"

\* How one step treats func f of a whenConnected(f, delay) call.
C14_Step(f) ==
  /\ (whens' = whens + 1 /\ f = whens') =>
        IF conversationId # Undefined
        THEN invoked'[f] = 1 /\ listeners' = listeners /\ timeouts' = timeouts
        ELSE invoked'[f] = 0 /\ ListeningAfter(f) /\ f \notin timeouts'
  /\ Listening(f) =>
        IF EmitsConnected
        THEN /\ ~ListeningAfter(f)
             /\ \A l \in listeners :
                  l.func = f =>
                    IF l.delay
                    THEN invoked'[f] = 0 /\ f \in timeouts'
                    ELSE invoked'[f] = 1 /\ f \notin timeouts'
        ELSE ListeningAfter(f) /\ invoked'[f] = 0 /\ f \notin timeouts'
  /\ f \in timeouts =>
        /\ ~ListeningAfter(f)
        /\ \/ f \in timeouts' /\ invoked'[f] = 0
           \/ f \notin timeouts' /\ invoked'[f] = 1
  /\ invoked[f] = 1 =>
        invoked'[f] = 1 /\ ~ListeningAfter(f) /\ f \notin timeouts'

\* C14: whenConnected(f, delay) with conversationId set calls f at once and
\* registers nothing; before that, f waits for the next 'connected', is then
\* called in the same step, or after the delay when one was given, and is
\* never called a second time, whatever 'connected' events follow.
C14_WhenConnectedOnce ==
  /\ [](\A f \in 1..MaxWhen : invoked[f] <= 1)
  /\ [][\A f \in 1..MaxWhen : C14_Step(f)]_vars
  /\ \A f \in 1..MaxWhen : (f \in timeouts) ~> (invoked[f] = 1)

\* C14: the first handshake of a session made without conversationId
\* succeeded, and the func that waited for 'connected' ran in that step.
C14_Witness ==
  /\ SeedConv \notin DOMAIN streamLen
  /\ conversationId = ConvName(1)
  /\ nextConv = 2
  /\ Names(emitted) = <<"connected", "started">>
  /\ invoked[1] = 1

\* C20: an activity of another type than "message" is never emitted as
\* `message` and does not end the processing of its response: the watermark
\* is the response's and the activities after it are emitted as usual.
C20_UnhandledTypeSkipped ==
  Processed =>
    /\ watermark = outcome.watermark
    /\ \A k \in DOMAIN Acts :
         Acts[k].type # "message" =>
           /\ TimesEmitted(Acts[k]) = 0
           /\ \A j \in DOMAIN Acts :
                (j > k /\ Acts[j].type = "message") =>
                  TimesEmitted(Acts[j]) =
                    IF Acts[j].from # userId /\ hasSentMessage THEN 1 ELSE 0

\* C20: a response held a typing activity followed by a message of the bot,
\* and the message was emitted.
C20_Witness ==
  /\ Processed
  /\ \E k, j \in DOMAIN Acts :
       /\ k < j
       /\ Acts[k].type # "message"
       /\ Qualifies(Acts[j])
       /\ TimesEmitted(Acts[j]) = 1

\* How often `name` is among the events of `evs`.
Times(name, evs) == Cardinality({ k \in 1..Len(evs) : evs[k].name = name })

\* C21: in the files with `let tries = 3` a create() call has at most one
\* handshake request in flight, its attempts numbered 1..3: a failure of
\* attempt k < 3 issues attempt k + 1 at once, a failure of attempt 3 issues
\* nothing, and a success issues nothing and emits 'connected' once.
C21_CreateChain ==
  /\ [](\A req \in BagToSet(creates) : req.attempt \in 1..CREATE_TRIES)
  /\ [][Create => creates' = creates (+) SetToBag({[attempt |-> 1]})]_vars
  /\ [][CreateFails =>
          /\ Times("connected", emitted') = 0
          /\ \E req \in BagToSet(creates) :
               creates' = IF req.attempt < CREATE_TRIES
                          THEN (creates (-) SetToBag({req}))
                                 (+) SetToBag({[req EXCEPT !.attempt = @ + 1]})
                          ELSE creates (-) SetToBag({req})]_vars
  /\ [][CreateSucceeds =>
          /\ Times("connected", emitted') = 1
          /\ \E req \in BagToSet(creates) : creates' = creates (-) SetToBag({req})]_vars

\* C21: the third attempt of the only create() call is in flight.
C21_Witness ==
  /\ variant # "ts"
  /\ creates = SetToBag({[attempt |-> CREATE_TRIES]})
  /\ emitted = <<>>

\* C22 as stated: a failure of the first request of a tick or of a
\* sendMessage() call is followed at once by exactly one retry.
C22_RetriesOnce ==
  /\ [][PollFails =>
          \E req \in BagToSet(polls) :
            polls' = IF req.attempt = 1
                     THEN (polls (-) SetToBag({req}))
                            (+) SetToBag({[req EXCEPT !.attempt = 2]})
                     ELSE polls (-) SetToBag({req})]_vars
  /\ [][SendFails =>
          \E req \in BagToSet(sends) :
            sends' = IF req.attempt = 1
                     THEN (sends (-) SetToBag({req}))
                            (+) SetToBag({[req EXCEPT !.attempt = 2]})
                     ELSE sends (-) SetToBag({req})]_vars

\* C22 as amended: with `let tries = 1` the first request of a tick or of a
\* sendMessage() call is the only one; no retry is ever in flight.
C22_SingleAttempt ==
  /\ \A req \in BagToSet(polls) : req.attempt = 1
  /\ \A req \in BagToSet(sends) : req.attempt = 1

\* C22: the poll of a tick failed in part_001 and no request is in flight.
C22_Witness ==
  /\ variant = "retry"
  /\ outcome.op = "update"
  /\ outcome.kind \in FailureKinds
  /\ InFlight = 0

\* C23: in the files that keep an idle clock, polling is active and the idle
\* clock is reset after every sendMessage() call.
C23_SendRestartsPolling ==
  [][SendMessage => Polling' /\ lastUpdate' = "fresh"]_vars

\* C24: in part_001 polling that is not active becomes active only by
\* startInterval(), sendMessage() or a create() of the caller.
C24_StaysStopped ==
  [][(~Polling /\ Polling') => (StartInterval \/ SendMessage \/ CreateSucceeds)]_vars

\* C25: in part_001 a tick with the idle clock expired stops the polling,
\* emits 'stopped' and still issues its poll; a tick with the clock not
\* expired stops nothing; a processed poll response with activities resets
\* the clock and leaves the session polling (no step that leaves it
\* otherwise is the callback of such a response); and polling ends only by
\* stopInterval() or by such an idle tick.
C25_IdleStop ==
  /\ [][PollTick =>
          /\ IssuesPoll
          /\ IF lastUpdate = "expired"
             THEN ~Polling' /\ Names(emitted') = <<"stopped">> /\ liveTimers' = {}
             ELSE UNCHANGED timers /\ emitted' = <<>>]_vars
  /\ [][(polls' # polls /\ ~(Polling' /\ lastUpdate' = "fresh")) =>
          \A req \in BagToSet(polls) :
            \A kinds \in [1..(watermark' - req.wm) -> ActivityKinds] :
              kinds # <<>> =>
                ~UpdateCallback(req, FALSE, TextBody(PollData(req, watermark', kinds)))]_vars
  /\ [][(lastUpdate = "fresh" /\ lastUpdate' = "expired") => TimePasses]_vars
  /\ [][(Polling /\ ~Polling') =>
          (StopInterval \/ (PollTick /\ lastUpdate = "expired"))]_vars

\* C25: an idle session was stopped by a tick, whose poll is in flight.
C25_Witness ==
  /\ variant = "retry"
  /\ lastUpdate = "expired"
  /\ ~Polling
  /\ Names(emitted) = <<"stopped">>
  /\ \E req \in BagToSet(polls) :
       req.conv = conversationId /\ req.wm = UrlWatermark(watermark)

\* Whether polling is active after the events `evs`, emitted from a session
\* where it was `active` ("on" or "off"); "bad" when a 'started' follows a
\* 'started' or a 'stopped' does not follow a 'started'.
RECURSIVE After(_, _)
After(active, evs) ==
  IF evs = <<>> THEN active
  ELSE IF Head(evs).name = "started"
  THEN IF active = "off" THEN After("on", Tail(evs)) ELSE "bad"
  ELSE IF Head(evs).name = "stopped"
  THEN IF active = "on" THEN After("off", Tail(evs)) ELSE "bad"
  ELSE After(active, Tail(evs))

\* C26: over the events of a session, 'started' and 'stopped' alternate,
\* beginning with 'started' (the constructor's included), and polling is
\* active exactly when the last of them is 'started'.
C26_StartedStoppedAlternate ==
  /\ After("off", emitted) = (IF timer # NullTimer THEN "on" ELSE "off")
  /\ [][After(IF timer # NullTimer THEN "on" ELSE "off", emitted')
          = (IF timer' # NullTimer THEN "on" ELSE "off")]_vars

\* C26: the polling the constructor of a pre-seeded session started was
\* stopped: one 'started', one 'stopped', no timer.
C26_Witness ==
  /\ conversationId = SeedConv
  /\ token = EmptyString
  /\ Names(emitted) = <<"stopped">>
  /\ timer = NullTimer

\* C27: the has-sent gate is closed on construction, is opened inside every
\* sendMessage() call, whatever becomes of the request, by nothing else, and
\* is never closed again, not by a create() that succeeds later either.
C27_GateMonotone ==
  /\ ~hasSentMessage
  /\ [][SendMessage => hasSentMessage']_vars
  /\ [][hasSentMessage => hasSentMessage']_vars
  /\ [][(~hasSentMessage /\ hasSentMessage') => SendMessage]_vars

\* C27: a handshake succeeded after sendMessage(), and the gate is open.
C27_Witness ==
  /\ hasSentMessage
  /\ Times("connected", emitted) = 1
  /\ conversationId # Undefined
  /\ watermark = NullWatermark

\* C29: handshake requests come into flight only by create() calls and
\* retries, which replace the request that failed; 'connected' is emitted
\* once by each handshake that succeeds, which ends its call, and by nothing
\* else; the session then holds the conversationId and token of that
\* response and exactly one live timer (both files).
C29_ConnectedPerCreate ==
  /\ [][Times("connected", emitted') = (IF CreateSucceeds THEN 1 ELSE 0)]_vars
  /\ [][BagCardinality(creates') > BagCardinality(creates) => Create]_vars
  /\ [][CreateSucceeds =>
          /\ BagCardinality(creates') = BagCardinality(creates) - 1
          /\ conversationId' = ConvName(nextConv)
          /\ token' = TokenOf(ConvName(nextConv))
          /\ timer' # NullTimer
          /\ liveTimers' = {timer'}]_vars

\* C29: of two create() calls in flight together the first has succeeded and
\* the other's request is still in flight.
C29_Witness ==
  /\ Times("connected", emitted) = 1
  /\ BagCardinality(creates) = 1
  /\ conversationId = ConvName(nextConv - 1)
  /\ token = TokenOf(conversationId)
  /\ liveTimers = {timer}

\* C30: the response of a poll that was issued for another conversation
\* than the one the session holds is not written into the watermark and
\* none of its activities is emitted.
C30_ResponseOfOwnConversation ==
  [][\A req \in BagToSet(polls) :
       \A len \in 0..MaxWork :
         \A kinds \in [1..(IF len > req.wm THEN len - req.wm ELSE 0) -> ActivityKinds] :
           (req.conv # conversationId
              /\ UpdateCallback(req, FALSE, TextBody(PollData(req, len, kinds))))
             => (watermark' = watermark /\ MessagesOf(emitted') = {})]_vars

\* C28: the has-sent gate is looked at when a response is processed: an
\* activity of a response processed before the first sendMessage() is
\* dropped, and no poll issued after that emits it.
C28_DroppedNeverEmitted ==
  [][\A e \in MessagesOf(emitted') : <<e.conv, e.idx>> \notin dropped.settled]_vars

\* C35: in the oldest variant a response that cannot be parsed, or a
\* transport error that delivers no body, is only logged by the callbacks of
\* create(), sendMessage() and update(): no exception leaves the callback
\* and the session is as it was.
C35_FailureOnlyLogged ==
  [][(CreateFails \/ SendFails \/ PollFails) =>
       (~threw' /\ emitted' = <<>> /\ UNCHANGED <<fields, timers>>)]_vars

\* C31: a step that emits 'connected' leaves the session with a
\* conversationId and a token, and a handshake response without a
\* conversationId emits no 'connected'.
C31_ConnectedHoldsId ==
  /\ [][Times("connected", emitted') > 0 =>
          /\ conversationId' # Undefined
          /\ token' \notin {Undefined, EmptyString}]_vars
  /\ [][CreateAnswersBare => Times("connected", emitted') = 0]_vars

\* C36: a poll response that passes the guards but has no activities list,
\* or a message without `from`, leaves the watermark as it was, emits no
\* 'message' and lets no exception leave the callback.
C36_OddShapeIsFailure ==
  [][PollAnswersOddShape =>
       /\ watermark' = watermark
       /\ MessagesOf(emitted') = {}
       /\ ~threw']_vars

\* The activity each `message` event of `evs` carries, in order.
Carried(evs) ==
  LET msgs == SelectSeq(evs, LAMBDA e : e.name = "message")
  IN [k \in 1..Len(msgs) |-> <<msgs[k].conv, msgs[k].idx>>]

\* The activities of `acts` of type "message" from another sender, in order.
FromOthers(acts) ==
  LET sel == SelectSeq(acts, Qualifies)
  IN [k \in 1..Len(sel) |-> <<sel[k].conv, sel[k].idx>>]

\* C33: the `message` events of a processed poll response carry, in order,
\* exactly its activities of type "message" whose from.id is not userId when
\* the has-sent gate is open, and there are none when it is closed.
C33_MessagesInOrder ==
  Processed => Carried(emitted) = IF hasSentMessage THEN FromOthers(Acts) ELSE <<>>

\* C33: a response with two messages of the bot was processed with the gate
\* open, and both were emitted, the earlier one first.
C33_Witness ==
  /\ Processed
  /\ hasSentMessage
  /\ Len(Acts) = 2
  /\ \A k \in DOMAIN Acts : Qualifies(Acts[k])
  /\ Carried(emitted) = <<<<Acts[1].conv, Acts[1].idx>>, <<Acts[2].conv, Acts[2].idx>>>>

\* C32: a session constructed without a conversationId has no timer, no
\* event and no request in flight, one constructed with a conversationId is
\* polling and has emitted 'started' alone. While no timer is live a
\* request comes into flight only by create() or sendMessage(), and the first
\* timer is set only by startInterval() or by a handshake that succeeded;
\* 'connected' is emitted only by a handshake that succeeded, which only
\* create() puts into flight; and whenConnected(f) on a session constructed
\* with a conversationId calls f in the call.
C32_AsConstructed ==
  /\ InFlight = 0
  /\ IF SeedConv \in DOMAIN streamLen
     THEN conversationId = SeedConv /\ liveTimers = {timer} /\ timer # NullTimer
          /\ Names(emitted) = <<"started">>
     ELSE conversationId = Undefined /\ liveTimers = {} /\ timer = NullTimer
          /\ emitted = <<>>
  /\ [][(liveTimers = {} /\ InFlight' > InFlight) => (Create \/ SendMessage)]_vars
  /\ [][(liveTimers = {} /\ liveTimers' # {}) => (StartInterval \/ CreateSucceeds)]_vars
  /\ [][EmitsConnected => CreateSucceeds]_vars
  /\ [][BagCardinality(creates') > BagCardinality(creates) => Create]_vars
  /\ [][(SeedConv \in DOMAIN streamLen /\ whens' = whens + 1) =>
          /\ invoked'[whens'] = 1
          /\ listeners' = listeners
          /\ timeouts' = timeouts]_vars

\* C32: whenConnected(f) was called on a session constructed with a
\* conversationId on which create() was never called, and f has run.
C32_Witness ==
  /\ SeedConv \in DOMAIN streamLen
  /\ conversationId = SeedConv
  /\ token = EmptyString
  /\ nextConv = 1
  /\ creates = EmptyBag
  /\ whens = 1
  /\ invoked[1] = 1
  /\ timer # NullTimer

\* Activity i is in the stream of the session's conversation, after the
\* session's watermark and after the watermark of every poll in flight, and
\* the has-sent gate is open.
Awaited(i) ==
  /\ hasSentMessage
  /\ timer # NullTimer
  /\ i <= streamLen[conversationId]
  /\ UrlWatermark(watermark) < i
  /\ \A req \in BagToSet(polls) : req.wm < i

\* C34: while the polling stays active, an activity the service appends to
\* the session's stream with the gate open lies after the watermark, and is
\* emitted as `message` in the end, whatever polls fail meanwhile.
C34_EventuallyEmitted ==
  /\ [][\A i \in 1..MaxWork :
          (hasSentMessage /\ streamLen[conversationId] = i - 1
             /\ streamLen'[conversationId] = i)
            => Awaited(i)']_vars
  /\ \A i \in 1..MaxWork : Awaited(i) ~> (<<SeedConv, i>> \in delivered)

\* C34: an activity appended while a poll was in flight and the gate open
\* was emitted by a later poll.
C34_Witness ==
  /\ <<SeedConv, MaxWork>> \in delivered
  /\ emitted = <<MessageEv(SeedConv, MaxWork)>>
  /\ watermark = MaxWork
  /\ polls # EmptyBag
  /\ timer # NullTimer

====
